---- MODULE Spec2Model ----
(***************************************************************************)
(* The redaction shield of lightspeed-stack:                               *)
(*   src/src/shields/redaction_shield.py  (RedactionShield, the shared     *)
(*   instance, redact_query, redact_attachments)                           *)
(*   src/src/shields/config.py            (pattern sourcing)               *)
(*                                                                         *)
(* Python values are modelled as follows.                                  *)
(*   str            a sequence of one-character strings                    *)
(*   Optional[x]    a record [isNone, val]                                 *)
(*   an exception   the name of its class ("" when nothing was raised);    *)
(*                  a subclass is named by the base class the code's       *)
(*                  except clauses tell apart                              *)
(*   an object      a record with an id field (identity) or a heap cell    *)
(***************************************************************************)
EXTENDS Naturals, Sequences, FiniteSets, TLC

VARIABLES
    configuration,    \* the application configuration object (redaction_shield.py:10)
    SHIELD_INSTANCE,  \* the module-level shared instance (redaction_shield.py:168)
    call,             \* the last call made by the caller: arguments and outcome
    heap,             \* the message/attachment objects of the last call, after it
    callers           \* the concurrent callers of get_redaction_shield()

vars == <<configuration, SHIELD_INSTANCE, call, heap, callers>>

(***************************************************************************)
(* Bounds of the model.                                                    *)
(***************************************************************************)
MaxAtoms == 2       \* a text is the concatenation of at most MaxAtoms atoms
MaxRules == 2       \* length of an explicit pattern list
MaxList == 2        \* length of a message or attachment list
MaxCfgLen == 1      \* length of a configured pattern list
MaxCallers == 3     \* concurrent callers of get_redaction_shield()

(***************************************************************************)
(* Characters.                                                             *)
(***************************************************************************)
Range(s) == {s[i] : i \in DOMAIN s}

UpperLetters ==
    <<"A","B","C","D","E","F","G","H","I","J","K","L","M",
      "N","O","P","Q","R","S","T","U","V","W","X","Y","Z">>

LowerLetters ==
    <<"a","b","c","d","e","f","g","h","i","j","k","l","m",
      "n","o","p","q","r","s","t","u","v","w","x","y","z">>

Digits == {"0","1","2","3","4","5","6","7","8","9"}

\* str.lower() on one character, as re.IGNORECASE folds case
LowerMap == [c \in Range(UpperLetters) |->
                LowerLetters[CHOOSE i \in DOMAIN UpperLetters : UpperLetters[i] = c]]

Lower(c) == IF c \in DOMAIN LowerMap THEN LowerMap[c] ELSE c

\* \w of the re module: alphanumerics and the underscore
WordChars == Range(UpperLetters) \cup Range(LowerLetters) \cup Digits \cup {"_"}

IsWordChar(c) == c \in WordChars

(***************************************************************************)
(* Optional values and outcomes.                                           *)
(***************************************************************************)
None == [isNone |-> TRUE, val |-> <<>>]
Some(v) == [isNone |-> FALSE, val |-> v]

\* Python truthiness of an Optional[list] / Optional[str]
Truthy(o) == ~o.isNone /\ o.val # <<>>

(***************************************************************************)
(* re.compile: the pattern syntax the modelled sources use.                *)
(*   \b          word boundary                                             *)
(*   [xyz]       character set,  [xyz]?  optional character set            *)
(*   any other character stands for itself                                 *)
(* A "[" with no closing "]" is re.error (unterminated character set); a   *)
(* pattern that is not a str is TypeError.  A compiled pattern is the      *)
(* sequence of its elements.                                               *)
(***************************************************************************)
Elem(t, cs) == [t |-> t, cs |-> cs]

CloseAt(src, i) ==
    IF \E j \in (i + 1)..Len(src) : src[j] = "]"
    THEN CHOOSE j \in (i + 1)..Len(src) :
            /\ src[j] = "]"
            /\ \A k \in (i + 1)..(j - 1) : src[k] # "]"
    ELSE 0

RECURSIVE ParseFrom(_, _)
ParseFrom(src, i) ==
    IF i > Len(src) THEN [exc |-> "", elems |-> <<>>]
    ELSE IF src[i] = "\\" THEN
        IF i + 1 <= Len(src) /\ src[i + 1] = "b"
        THEN LET rest == ParseFrom(src, i + 2)
             IN  [rest EXCEPT !.elems = <<Elem("b", {})>> \o @]
        ELSE [exc |-> "re.error", elems |-> <<>>]
    ELSE IF src[i] = "[" THEN
        LET j == CloseAt(src, i) IN
        IF j = 0 THEN [exc |-> "re.error", elems |-> <<>>]
        ELSE LET cs == {src[k] : k \in (i + 1)..(j - 1)}
                 opt == j + 1 <= Len(src) /\ src[j + 1] = "?"
                 rest == ParseFrom(src, IF opt THEN j + 2 ELSE j + 1)
             IN  [rest EXCEPT !.elems =
                     <<Elem(IF opt THEN "optset" ELSE "set", cs)>> \o @]
    ELSE LET rest == ParseFrom(src, i + 1)
         IN  [rest EXCEPT !.elems = <<Elem("set", {src[i]})>> \o @]

\* re.compile(pattern, re.IGNORECASE)
re_compile(pattern) ==
    IF pattern.kind # "str" THEN [exc |-> "TypeError", elems |-> <<>>]
    ELSE ParseFrom(pattern.s, 1)

(***************************************************************************)
(* Matching.                                                               *)
(***************************************************************************)
\* re.IGNORECASE: a pattern character matches a text character of either case
\* (CharEqCaseSensitive: the comparison without the flag)
CharEqCaseSensitive(a, b) == a = b
CharEq(a, b) == Lower(a) = Lower(b)

InSet(c, cs) == \E d \in cs : CharEq(d, c)

\* \b at position pos (between text[pos-1] and text[pos])
Boundary(text, pos) ==
    LET before == pos > 1 /\ IsWordChar(text[pos - 1])
        after == pos <= Len(text) /\ IsWordChar(text[pos])
    IN  before # after

\* The end position (exclusive) of the match of elems[k..] at pos, 0 if none.
\* An optional set is greedy: it is taken first and given back on failure.
RECURSIVE MatchFrom(_, _, _, _)
MatchFrom(elems, k, text, pos) ==
    IF k > Len(elems) THEN pos
    ELSE LET e == elems[k]
             here == pos <= Len(text) /\ InSet(text[pos], e.cs)
         IN  CASE e.t = "b" ->
                    IF Boundary(text, pos) THEN MatchFrom(elems, k + 1, text, pos) ELSE 0
               [] e.t = "set" ->
                    IF here THEN MatchFrom(elems, k + 1, text, pos + 1) ELSE 0
               [] e.t = "optset" ->
                    LET taken == IF here THEN MatchFrom(elems, k + 1, text, pos + 1) ELSE 0
                    IN  IF taken # 0 THEN taken ELSE MatchFrom(elems, k + 1, text, pos)

\* len(pattern.findall(text)): the non-overlapping matches, leftmost first
RECURSIVE FindallFrom(_, _, _)
FindallFrom(elems, text, pos) ==
    IF pos > Len(text) THEN 0
    ELSE LET e == MatchFrom(elems, 1, text, pos)
         IN  IF e > pos THEN 1 + FindallFrom(elems, text, e)
             ELSE FindallFrom(elems, text, pos + 1)

findall(elems, text) == FindallFrom(elems, text, 1)

\* The replacement template of pattern.sub: a backslash followed by a digit
\* is a group reference, and the modelled patterns have no groups
\* (re.error: invalid group reference); any other modelled template is literal.
TemplateError(repl) ==
    \E i \in DOMAIN repl : repl[i] = "\\" /\ i + 1 <= Len(repl) /\ repl[i + 1] \in Digits

RECURSIVE SubFrom(_, _, _, _)
SubFrom(elems, repl, text, pos) ==
    IF pos > Len(text) THEN <<>>
    ELSE LET e == MatchFrom(elems, 1, text, pos)
         IN  IF e > pos THEN repl \o SubFrom(elems, repl, text, e)
             ELSE <<text[pos]>> \o SubFrom(elems, repl, text, pos + 1)

\* pattern.sub(replacement, text)
sub(elems, repl, text) ==
    IF TemplateError(repl) THEN [exc |-> "re.error", val |-> <<>>]
    ELSE [exc |-> "", val |-> SubFrom(elems, repl, text, 1)]

(***************************************************************************)
(* Pattern entries.  An entry of a pattern list is a dict, a configuration *)
(* model exposing model_dump(), or some other object (here: a str).  The   *)
(* pattern of a dict is a str or, out of a YAML file, some other scalar.   *)
(***************************************************************************)
Str(s) == [kind |-> "str", s |-> s]
NotAStr == [kind |-> "int", s |-> <<>>]

BothKeys == {"pattern", "replacement"}

Entry(type, keys, pattern, replacement, dump) ==
    [type |-> type, keys |-> keys, pattern |-> pattern,
     replacement |-> replacement, dump |-> dump]

Dict(p, r) == Entry("dict", BothKeys, Str(p), r, "none")

\* r"\b<word>\b"
WB(word) == <<"\\", "b">> \o word \o <<"\\", "b">>

Redacted == <<"[","R","E","D","A","C","T","E","D","]">>

_get_default_patterns ==
    << Dict(WB(<<"f","o","o">>), <<"d","e","p","l","o","y","m","e","n","t">>),
       Dict(WB(<<"b","a","r">>), <<"o","p","e","n","s","h","i","f","t">>),
       Dict(WB(<<"p","a","s","s","w","o","r","d">>), Redacted),
       Dict(WB(<<"s","e","c","r","e","t">>), Redacted),
       Dict(WB(<<"a","p","i","[","_","-","]","?","k","e","y">>), Redacted),
       Dict(WB(<<"t","o","k","e","n">>), Redacted) >>

(***************************************************************************)
(* The except clauses: which exception classes each handler catches.       *)
(***************************************************************************)
ExtractCatches(exc) == exc = "ValueError"
LoadCatches(exc) == exc = "ValueError"
InitCatches(exc) == exc = "ValueError"
CompileCatches(exc) == exc \in {"re.error", "KeyError"}
RedactTextCatches(exc) == exc = "ValueError"
RunCatches(exc) == exc = "ValueError"
\* except Exception in redact_attachments (AttachmentsCatchesValueErrorOnly:
\* the narrower clause the other handlers have)
AttachmentsCatchesValueErrorOnly(exc) == exc = "ValueError"
AttachmentsCatches(exc) == exc # ""

(***************************************************************************)
(* RedactionShield._compile_patterns                                       *)
(***************************************************************************)
NoRule == [pattern |-> <<>>, replacement |-> <<>>, original |-> Str(<<>>)]

\* The dict display of the try block, given c = re.compile(pattern_config["pattern"],
\* re.IGNORECASE): pattern_config["replacement"] is evaluated after it.
CompiledRule(pattern_config, c) ==
    IF c.exc # "" THEN [exc |-> c.exc, rule |-> NoRule]
    ELSE IF "replacement" \notin pattern_config.keys
    THEN [exc |-> "KeyError", rule |-> NoRule]
    ELSE [exc |-> "",
          rule |-> [pattern |-> c.elems,
                    replacement |-> pattern_config.replacement,
                    original |-> pattern_config.pattern]]

\* The body of the try block for one pattern_config.  A subscript on an
\* object that is no mapping is TypeError, a missing key is KeyError.
CompileEntry(pattern_config) ==
    IF pattern_config.type # "dict" THEN [exc |-> "TypeError", rule |-> NoRule]
    ELSE IF "pattern" \notin pattern_config.keys THEN [exc |-> "KeyError", rule |-> NoRule]
    ELSE CompiledRule(pattern_config, re_compile(pattern_config.pattern))

\* The for loop from entry i on; r is the outcome of the try block for entry i.
RECURSIVE CompileLoop(_, _, _, _)
CompileStep(patterns, i, compiled, errors, r) ==
    IF r.exc = "" THEN CompileLoop(patterns, i + 1, Append(compiled, r.rule), errors)
    ELSE IF CompileCatches(r.exc) THEN CompileLoop(patterns, i + 1, compiled, errors + 1)
    ELSE [exc |-> r.exc, compiled |-> compiled, errors |-> errors]

CompileLoop(patterns, i, compiled, errors) ==
    IF i > Len(patterns) THEN [exc |-> "", compiled |-> compiled, errors |-> errors]
    ELSE CompileStep(patterns, i, compiled, errors, CompileEntry(patterns[i]))

_compile_patterns(patterns) == CompileLoop(patterns, 1, <<>>, 0)

(***************************************************************************)
(* config.py                                                               *)
(* A configuration object is [root, shields, nested]: root and nested are  *)
(* the redaction_patterns attributes of the object and of its shields      *)
(* attribute, each [present, isList, items]; shields tells whether the     *)
(* object has a shields attribute.                                         *)
(***************************************************************************)
Field(present, isList, items) ==
    [present |-> present, isList |-> isList, items |-> items, raises |-> ""]
Absent == Field(FALSE, FALSE, <<>>)
\* A field whose read raises exc (a property); hasattr lets every exception
\* but AttributeError through
Raising(exc) == [present |-> TRUE, isList |-> FALSE, items |-> <<>>, raises |-> exc]

\* item.model_dump(): an object without the method raises AttributeError
model_dump(item) ==
    IF item.type # "model" THEN [exc |-> "AttributeError", val |-> item]
    ELSE IF item.dump # "ok" THEN [exc |-> item.dump, val |-> item]
    ELSE [exc |-> "", val |-> Entry("dict", BothKeys, item.pattern, item.replacement, "none")]

\* [item.model_dump() for item in source]
RECURSIVE DumpFrom(_, _)
DumpFrom(source, i) ==
    IF i > Len(source) THEN [exc |-> "", val |-> <<>>]
    ELSE LET d == model_dump(source[i]) IN
         IF d.exc # "" THEN [exc |-> d.exc, val |-> <<>>]
         ELSE LET rest == DumpFrom(source, i + 1)
              IN  [rest EXCEPT !.val = <<d.val>> \o @]

\* The try statement of _extract_patterns, d being the outcome of the comprehension
Dumped(d) ==
    IF d.exc = "" THEN [exc |-> "", ret |-> Some(d.val), warnings |-> 0]
    ELSE IF ExtractCatches(d.exc) THEN [exc |-> "", ret |-> None, warnings |-> 1]
    ELSE [exc |-> d.exc, ret |-> None, warnings |-> 0]

_extract_patterns(source) ==
    IF ~source.isList \/ source.items = <<>>
    THEN [exc |-> "", ret |-> None, warnings |-> 0]
    ELSE IF source.items[1].type = "dict"
    THEN [exc |-> "", ret |-> Some(source.items), warnings |-> 0]
    ELSE Dumped(DumpFrom(source.items, 1))

\* The order in which load_redaction_patterns_from_config tries the two fields
\* (NestedFirst: the opposite order)
NestedFirst == <<"shields", "root">>
LookupOrder == <<"root", "shields">>

\* hasattr(config, "redaction_patterns");
\* hasattr(config, "shields") and hasattr(config.shields, "redaction_patterns")
HasField(config, name) ==
    IF name = "root" THEN config.root.present
    ELSE config.shields /\ config.nested.present

FieldOf(config, name) == IF name = "root" THEN config.root ELSE config.nested

\* The exception hasattr(config, "redaction_patterns") or
\* hasattr(config.shields, "redaction_patterns") raises, "" if none
Accessed(config, name) ==
    IF name = "root" THEN config.root.raises
    ELSE IF config.shields THEN config.nested.raises
    ELSE ""

\* The body of the try statement from field i of the order on; patterns is
\* the outcome of _extract_patterns on field i.
RECURSIVE LoadFrom(_, _, _)
LoadField(config, order, i, patterns) ==
    IF patterns.exc # "" THEN [exc |-> patterns.exc, ret |-> None, from |-> "none"]
    ELSE IF Truthy(patterns.ret) THEN [exc |-> "", ret |-> patterns.ret, from |-> order[i]]
    ELSE LoadFrom(config, order, i + 1)

LoadFrom(config, order, i) ==
    IF i > Len(order) THEN [exc |-> "", ret |-> None, from |-> "none"]
    ELSE IF Accessed(config, order[i]) # ""
    THEN [exc |-> Accessed(config, order[i]), ret |-> None, from |-> "none"]
    ELSE IF ~HasField(config, order[i]) THEN LoadFrom(config, order, i + 1)
    ELSE LoadField(config, order, i, _extract_patterns(FieldOf(config, order[i])))

\* except ValueError of load_redaction_patterns_from_config
LoadOutcome(r) ==
    IF r.exc # "" /\ LoadCatches(r.exc)
    THEN [exc |-> "", ret |-> None, from |-> "none", errors |-> 1]
    ELSE [exc |-> r.exc, ret |-> r.ret, from |-> r.from, errors |-> 0]

load_redaction_patterns_from_config(config) == LoadOutcome(LoadFrom(config, LookupOrder, 1))

(***************************************************************************)
(* RedactionShield.__init__                                                *)
(* The outcome: the exception raised, or the fields of the new object;     *)
(* consulted tells whether the configuration was read, errors counts the   *)
(* logger.error calls.                                                     *)
(***************************************************************************)
\* self.patterns = patterns or self._get_default_patterns()
OrDefaults(patterns) == IF Truthy(patterns) THEN patterns.val ELSE _get_default_patterns

NewShield(exc, patterns, compiled, consulted, errors) ==
    [exc |-> exc, patterns |-> patterns, compiled_patterns |-> compiled,
     consulted |-> consulted, errors |-> errors]

\* self.compiled_patterns = self._compile_patterns(), c being its outcome
InitCompiled(selfPatterns, c, consulted, errors) ==
    IF c.exc # "" THEN NewShield(c.exc, <<>>, <<>>, consulted, errors + c.errors)
    ELSE NewShield("", selfPatterns, c.compiled, consulted, errors + c.errors)

InitPatterns(selfPatterns, consulted, errors) ==
    InitCompiled(selfPatterns, _compile_patterns(selfPatterns), consulted, errors)

\* The try statement of __init__, loaded being the outcome of
\* load_redaction_patterns_from_config(configuration)
InitLoaded(loaded) ==
    IF loaded.exc = "" THEN InitPatterns(OrDefaults(loaded.ret), TRUE, loaded.errors)
    ELSE IF InitCatches(loaded.exc) THEN InitPatterns(OrDefaults(None), TRUE, loaded.errors)
    ELSE NewShield(loaded.exc, <<>>, <<>>, TRUE, loaded.errors)

RedactionShield(patterns, config) ==
    IF patterns.isNone THEN InitLoaded(load_redaction_patterns_from_config(config))
    ELSE InitPatterns(OrDefaults(patterns), FALSE, 0)

(***************************************************************************)
(* RedactionShield.redact_text                                             *)
(***************************************************************************)
TextResult(exc, val, made, errors) ==
    [exc |-> exc, val |-> val, redactions_made |-> made, errors |-> errors]

\* The text a rule is applied to: the current value of the working text
RuleInput(text, redacted_text) == redacted_text

\* The for loop from rule i on.  RedactRule is the try block for rule i,
\* matches being len(pattern.findall(...)); RedactSub is what follows
\* pattern.sub(...) of outcome s, with the except clause.
RECURSIVE RedactLoop(_, _, _, _, _, _)
RedactSub(compiled, i, text, redacted_text, redactions_made, errors, matches, s) ==
    IF s.exc = ""
    THEN RedactLoop(compiled, i + 1, text, s.val, redactions_made + matches, errors)
    ELSE IF RedactTextCatches(s.exc)
    THEN RedactLoop(compiled, i + 1, text, redacted_text, redactions_made, errors + 1)
    ELSE TextResult(s.exc, None, redactions_made, errors)

RedactRule(compiled, i, text, redacted_text, redactions_made, errors, matches) ==
    IF matches = 0
    THEN RedactLoop(compiled, i + 1, text, redacted_text, redactions_made, errors)
    ELSE RedactSub(compiled, i, text, redacted_text, redactions_made, errors, matches,
                   sub(compiled[i].pattern, compiled[i].replacement,
                       RuleInput(text, redacted_text)))

RedactLoop(compiled, i, text, redacted_text, redactions_made, errors) ==
    IF i > Len(compiled) THEN TextResult("", Some(redacted_text), redactions_made, errors)
    ELSE RedactRule(compiled, i, text, redacted_text, redactions_made, errors,
                    findall(compiled[i].pattern, RuleInput(text, redacted_text)))

redact_text(self, text) ==
    IF text.isNone THEN TextResult("", None, 0, 0)
    ELSE IF text.val = <<>> THEN TextResult("", text, 0, 0)
    ELSE RedactLoop(self.compiled_patterns, 1, text.val, text.val, 0, 0)

(***************************************************************************)
(* The shared instance: get_redaction_shield, redact_query.                *)
(* An instance is [isNone, id, patterns, compiled_patterns]; id is the     *)
(* identity of the object.  Each function takes the shared reference and   *)
(* the identity a new object would get, and yields the shared reference    *)
(* it leaves behind with its outcome.                                      *)
(***************************************************************************)
NoShield == [isNone |-> TRUE, id |-> 0, patterns |-> <<>>, compiled_patterns |-> <<>>]

Instance(id, new) ==
    [isNone |-> FALSE, id |-> id, patterns |-> new.patterns,
     compiled_patterns |-> new.compiled_patterns]

\* if SHIELD_INSTANCE is None or patterns is not None
\* (AlwaysConstruct: an accessor that constructs on every call)
AlwaysConstruct(shield, patterns) == TRUE
NeedsConstruct(shield, patterns) == shield.isNone \/ ~patterns.isNone

\* SHIELD_INSTANCE = RedactionShield(patterns), new being the constructor's
\* outcome: nothing is assigned when it raises
Constructed(shield, id, new) ==
    IF new.exc # ""
    THEN [exc |-> new.exc, shield |-> shield, ret |-> NoShield,
          constructed |-> TRUE, consulted |-> new.consulted, errors |-> new.errors]
    ELSE [exc |-> "", shield |-> Instance(id, new), ret |-> Instance(id, new),
          constructed |-> TRUE, consulted |-> new.consulted, errors |-> new.errors]

get_redaction_shield(shield, patterns, config, id) ==
    IF NeedsConstruct(shield, patterns)
    THEN Constructed(shield, id, RedactionShield(patterns, config))
    ELSE [exc |-> "", shield |-> shield, ret |-> shield,
          constructed |-> FALSE, consulted |-> FALSE, errors |-> 0]

\* return shield.redact_text(query, conversation_id), r being its outcome
QueryRedacted(g, r) ==
    [exc |-> r.exc, shield |-> g.shield, ret |-> r.val,
     constructed |-> g.constructed, errors |-> g.errors + r.errors]

\* redact_query after shield = get_redaction_shield() of outcome g
QueryWith(g, query) ==
    IF g.exc # ""
    THEN [exc |-> g.exc, shield |-> g.shield, ret |-> None,
          constructed |-> g.constructed, errors |-> g.errors]
    ELSE QueryRedacted(g, redact_text(g.ret, query))

redact_query(shield, config, id, query) ==
    QueryWith(get_redaction_shield(shield, None, config, id), query)

(***************************************************************************)
(* Attachments and messages are objects on a heap: a sequence of cells,    *)
(* an object's identity being its index.  A list of objects is a sequence  *)
(* of identities.  The caller's objects are cells 1..n.                    *)
(*   attachment  [attachment_type, content_type, content, ctor]: ctor is   *)
(*               what type(attachment)(...) raises ("" if nothing)         *)
(*   message     [hasContent, content, copier, copyExc]: copier is the     *)
(*               copy facility the object exposes ("model_copy", "copy"    *)
(*               or "none"), copyExc what calling it raises                *)
(***************************************************************************)
Attachment(attachment_type, content_type, content, ctor) ==
    [attachment_type |-> attachment_type, content_type |-> content_type,
     content |-> content, ctor |-> ctor]

Message(hasContent, content, copier, copyExc) ==
    [hasContent |-> hasContent, content |-> content, copier |-> copier, copyExc |-> copyExc]

Ids(objs) == [i \in 1..Len(objs) |-> i]

BatchResult(exc, caught, shield, list, same, cells, constructed, errors) ==
    [exc |-> exc, caught |-> caught, shield |-> shield, list |-> list, same |-> same,
     heap |-> cells, constructed |-> constructed, errors |-> errors]

\* redacted_attachment = type(attachment)(attachment_type=..., content_type=...,
\* content=redacted_content): a new cell, the attachment's own left as it is.
OverwriteAttachment(cells, attachment, redacted_content) ==
    [heap |-> [cells EXCEPT ![attachment].content = redacted_content],
     ret |-> attachment]
NewAttachment(cells, attachment, redacted_content) ==
    [heap |-> Append(cells, Attachment(cells[attachment].attachment_type,
                                       cells[attachment].content_type,
                                       redacted_content,
                                       cells[attachment].ctor)),
     ret |-> Len(cells) + 1]

\* The for loop of redact_attachments from attachment i on: the exception
\* that ends it ("" if it runs to the end), the heap and the redacted list.
\* AttachmentAppended is redacted.append(redacted_attachment); AttachmentRedacted
\* is what follows shield.redact_text(...) of outcome redacted_content.
RECURSIVE AttachmentsLoop(_, _, _, _, _)
AttachmentAppended(shield, attachments, i, redacted, redacted_attachment) ==
    AttachmentsLoop(shield, attachments, i + 1, redacted_attachment.heap,
                    Append(redacted, redacted_attachment.ret))

AttachmentRedacted(shield, attachments, i, cells, redacted, redacted_content) ==
    IF redacted_content.exc # ""
    THEN [exc |-> redacted_content.exc, heap |-> cells, redacted |-> redacted]
    ELSE IF cells[attachments[i]].ctor # ""
    THEN [exc |-> cells[attachments[i]].ctor, heap |-> cells, redacted |-> redacted]
    ELSE AttachmentAppended(shield, attachments, i, redacted,
                            NewAttachment(cells, attachments[i], redacted_content.val))

AttachmentsLoop(shield, attachments, i, cells, redacted) ==
    IF i > Len(attachments) THEN [exc |-> "", heap |-> cells, redacted |-> redacted]
    ELSE AttachmentRedacted(shield, attachments, i, cells, redacted,
                            redact_text(shield, cells[attachments[i]].content))

\* The try statement of redact_attachments with its except clause: g is the
\* outcome of get_redaction_shield(), exc the exception raised in the try
\* block, l the outcome of the loop.
AttachmentsOutcome(g, attachments, cells, exc, l) ==
    IF exc = ""
    THEN BatchResult("", "", g.shield, l.redacted, FALSE, l.heap, g.constructed, g.errors)
    ELSE IF AttachmentsCatches(exc)
    THEN BatchResult("", exc, g.shield, attachments, TRUE, l.heap, g.constructed,
                     g.errors + 1)
    ELSE BatchResult(exc, "", g.shield, <<>>, FALSE, l.heap, g.constructed, g.errors)

AttachmentsLooped(g, attachments, cells, l) ==
    AttachmentsOutcome(g, attachments, cells, l.exc, l)

AttachmentsWith(g, attachments, cells) ==
    IF g.exc # ""
    THEN AttachmentsOutcome(g, attachments, cells, g.exc,
                            [exc |-> g.exc, heap |-> cells, redacted |-> <<>>])
    ELSE AttachmentsLooped(g, attachments, cells,
                           AttachmentsLoop(g.ret, attachments, 1, cells, <<>>))

redact_attachments(shield, config, id, attachments, cells) ==
    AttachmentsWith(get_redaction_shield(shield, None, config, id), attachments, cells)

(***************************************************************************)
(* RedactionShield.run and RedactionShield._copy_message                   *)
(***************************************************************************)
\* The identity of the object _copy_message returns: a new cell holding a
\* copy when the message has a copy facility (model_copy, else copy), the
\* message itself otherwise.
_copy_message(message, cells) ==
    IF cells[message].copier = "none"
    THEN [exc |-> "", heap |-> cells, ret |-> message]
    ELSE IF cells[message].copyExc # ""
    THEN [exc |-> cells[message].copyExc, heap |-> cells, ret |-> message]
    ELSE [exc |-> "", heap |-> Append(cells, cells[message]), ret |-> Len(cells) + 1]

\* if hasattr(message, "content") and message.content
HasContent(m) == m.hasContent /\ Truthy(m.content)

\* The for loop of run from message i on.  MessageCopied is what follows
\* redacted_message = self._copy_message(message) of outcome c;
\* MessageRedacted is redacted_message.content = self.redact_text(...) of
\* outcome r, and the append.
RECURSIVE RunLoop(_, _, _, _, _)
MessageRedacted(self, messages, i, c, redacted_messages, r) ==
    IF r.exc # "" THEN [exc |-> r.exc, heap |-> c.heap, redacted |-> redacted_messages]
    ELSE RunLoop(self, messages, i + 1, [c.heap EXCEPT ![c.ret].content = r.val],
                 Append(redacted_messages, c.ret))

MessageCopied(self, messages, i, cells, redacted_messages, c) ==
    IF c.exc # "" THEN [exc |-> c.exc, heap |-> cells, redacted |-> redacted_messages]
    ELSE IF HasContent(cells[messages[i]])
    THEN MessageRedacted(self, messages, i, c, redacted_messages,
                         redact_text(self, cells[messages[i]].content))
    ELSE RunLoop(self, messages, i + 1, c.heap, Append(redacted_messages, c.ret))

RunLoop(self, messages, i, cells, redacted_messages) ==
    IF i > Len(messages)
    THEN [exc |-> "", heap |-> cells, redacted |-> redacted_messages]
    ELSE MessageCopied(self, messages, i, cells, redacted_messages,
                       _copy_message(messages[i], cells))

\* The try statement of run with its except clause, l being the loop's outcome
RunOutcome(self, messages, l) ==
    IF l.exc = ""
    THEN BatchResult("", "", self, l.redacted, FALSE, l.heap, FALSE, 0)
    ELSE IF RunCatches(l.exc)
    THEN BatchResult("", l.exc, self, messages, TRUE, l.heap, FALSE, 1)
    ELSE BatchResult(l.exc, "", self, <<>>, FALSE, l.heap, FALSE, 0)

run(self, messages, cells) == RunOutcome(self, messages, RunLoop(self, messages, 1, cells, <<>>))

(***************************************************************************)
(* Inputs.                                                                 *)
(***************************************************************************)
RECURSIVE SeqsUpTo(_, _)
SeqsUpTo(S, n) ==
    IF n = 0 THEN {<<>>}
    ELSE LET shorter == SeqsUpTo(S, n - 1)
         IN  shorter \cup {Append(t, x) : t \in shorter, x \in S}

RECURSIVE Concats(_, _)
Concats(S, n) ==
    IF n = 0 THEN {<<>>}
    ELSE LET shorter == Concats(S, n - 1)
         IN  shorter \cup {t \o x : t \in shorter, x \in S}

Foo == <<"f","o","o">>

\* Pieces of text: keywords in several letter cases, parts of the api key
\* variants, a letter that turns a keyword into a longer word, separators.
Atoms ==
    { Foo, <<"B","A","R">>, <<"P","a","s","s","w","o","r","d">>,
      <<"s","e","c","r","e","t">>, <<"t","o","k","e","n">>,
      <<"a","p","i">>, <<"k","e","y">>, <<"-","k","e","y">>, <<"_","K","e","y">>,
      <<" ">>, <<"d">>, <<"a">>, <<"b">> }

Texts == Concats(Atoms, MaxAtoms)

AtoB == Dict(<<"a">>, <<"b">>)
BtoC == Dict(<<"b">>, <<"c">>)
FooBadTemplate == Dict(WB(Foo), <<"\\", "1">>)
BadRegex == Dict(<<"[", "x">>, <<"o","o","p","s">>)
NoReplacement == Entry("dict", {"pattern"}, Str(<<"a">>), <<>>, "none")
NoPattern == Entry("dict", {"replacement"}, Str(<<>>), <<"b">>, "none")
IntPattern == Entry("dict", BothKeys, NotAStr, <<"b">>, "none")
StrEntry == Entry("str", {}, Str(<<>>), <<>>, "none")
ModelBtoC == Entry("model", BothKeys, Str(<<"b">>), <<"c">>, "ok")
ModelDumpFails == Entry("model", BothKeys, Str(<<"b">>), <<"c">>, "ValueError")

\* rule lists of the instances texts are redacted with
TextEntries == {AtoB, BtoC, FooBadTemplate}
\* rule lists handed to the constructor
RuleEntries == {AtoB, BadRegex, NoReplacement, NoPattern, IntPattern, StrEntry}
\* rule lists handed to get_redaction_shield
SharedPatternLists ==
    { Some(<<>>), Some(<<AtoB>>), Some(<<FooBadTemplate>>), Some(<<StrEntry>>),
      Some(<<AtoB, FooBadTemplate>>) }
\* entries of a configured list
ConfigEntries == {AtoB, ModelBtoC, ModelDumpFails, StrEntry}

PatternLists(S) == {Some(l) : l \in SeqsUpTo(S, MaxRules)}

Fields ==
    {Absent, Field(TRUE, FALSE, <<>>), Raising("ValueError"), Raising("RuntimeError")}
        \cup {Field(TRUE, TRUE, l) : l \in SeqsUpTo(ConfigEntries, MaxCfgLen)}

Config(root, shields, nested) == [root |-> root, shields |-> shields, nested |-> nested]

Configs ==
    {Config(r, TRUE, n) : r \in Fields, n \in Fields}
        \cup {Config(r, FALSE, Absent) : r \in Fields}

NoConfig == Config(Absent, FALSE, Absent)

SharedConfigs ==
    { NoConfig,
      Config(Field(TRUE, TRUE, <<AtoB>>), FALSE, Absent),
      Config(Absent, TRUE, Field(TRUE, TRUE, <<FooBadTemplate>>)),
      Config(Field(TRUE, TRUE, <<StrEntry>>), FALSE, Absent) }

Queries == {None, Some(<<>>), Some(Foo), Some(<<"a"," ","b">>)}

AttachmentObjects ==
    { Attachment("log", "text/plain", Some(Foo), ""),
      Attachment("conf", "text/html", None, ""),
      Attachment("log", "text/plain", Some(<<"a">>), "TypeError") }

MessageObjects ==
    { Message(TRUE, Some(Foo), "model_copy", ""),
      Message(TRUE, Some(Foo), "none", ""),
      Message(TRUE, Some(<<>>), "copy", "ValueError"),
      Message(FALSE, None, "model_copy", "TypeError") }


(***************************************************************************)
(* The calls.  call records the last call: its arguments (patterns, text,  *)
(* the caller's objects as they were before it) and its outcome: the       *)
(* exception it raised (exc), the one its batch handler caught (caught),   *)
(* the instance, text or list it returned (same: the list returned is the  *)
(* list passed in), whether it ran the constructor and read the            *)
(* configuration, and its logger.error calls.                              *)
(***************************************************************************)
NoCall ==
    [op |-> "", patterns |-> None, text |-> None, objs |-> <<>>,
     exc |-> "", caught |-> "", shield |-> NoShield, ret |-> None, list |-> <<>>,
     same |-> FALSE, constructed |-> FALSE, consulted |-> FALSE, errors |-> 0]

\* The identity of a newly allocated RedactionShield: one no live reference
\* holds (the shared reference, the instance the last call returned).
FreshId == CHOOSE i \in 1..3 : i \notin {SHIELD_INSTANCE.id, call.shield.id}

\* RedactionShield(patterns), called directly
Constructing(patterns, id, new) ==
    [NoCall EXCEPT !.op = "RedactionShield", !.patterns = patterns,
                   !.exc = new.exc,
                   !.shield = IF new.exc = "" THEN Instance(id, new) ELSE NoShield,
                   !.constructed = TRUE, !.consulted = new.consulted,
                   !.errors = new.errors]

Construct(patterns) ==
    /\ call.op = ""
    /\ call' = Constructing(patterns, FreshId, RedactionShield(patterns, configuration))
    /\ UNCHANGED <<configuration, SHIELD_INSTANCE, heap, callers>>

\* SHIELD_INSTANCE.redact_text(text)
RedactingText(text, r) ==
    [NoCall EXCEPT !.op = "redact_text", !.text = text,
                   !.exc = r.exc, !.ret = r.val, !.errors = r.errors]

RedactText(text) ==
    /\ call.op = ""
    /\ ~SHIELD_INSTANCE.isNone
    /\ call' = RedactingText(text, redact_text(SHIELD_INSTANCE, text))
    /\ UNCHANGED <<configuration, SHIELD_INSTANCE, heap, callers>>

GettingShield(patterns, g) ==
    /\ SHIELD_INSTANCE' = g.shield
    /\ call' = [NoCall EXCEPT !.op = "get_redaction_shield", !.patterns = patterns,
                              !.exc = g.exc,
                              !.shield = g.ret, !.constructed = g.constructed,
                              !.consulted = g.consulted, !.errors = g.errors]

GetRedactionShield(patterns) ==
    /\ GettingShield(patterns,
                     get_redaction_shield(SHIELD_INSTANCE, patterns, configuration, FreshId))
    /\ heap' = <<>>
    /\ UNCHANGED <<configuration, callers>>

RedactingQuery(query, r) ==
    /\ SHIELD_INSTANCE' = r.shield
    /\ call' = [NoCall EXCEPT !.op = "redact_query", !.text = query,
                              !.exc = r.exc, !.ret = r.ret,
                              !.constructed = r.constructed, !.errors = r.errors]

RedactQuery(query) ==
    /\ RedactingQuery(query, redact_query(SHIELD_INSTANCE, configuration, FreshId, query))
    /\ heap' = <<>>
    /\ UNCHANGED <<configuration, callers>>

Batch(op, objs, r) ==
    /\ SHIELD_INSTANCE' = r.shield
    /\ heap' = r.heap
    /\ call' = [NoCall EXCEPT !.op = op, !.objs = objs,
                              !.exc = r.exc,
                              !.caught = r.caught, !.list = r.list, !.same = r.same,
                              !.constructed = r.constructed, !.errors = r.errors]

RedactAttachments(objs) ==
    /\ Batch("redact_attachments", objs,
             redact_attachments(SHIELD_INSTANCE, configuration, FreshId, Ids(objs), objs))
    /\ UNCHANGED <<configuration, callers>>

\* SHIELD_INSTANCE.run(messages)
Run(objs) ==
    /\ ~SHIELD_INSTANCE.isNone
    /\ Batch("run", objs, run(SHIELD_INSTANCE, Ids(objs), objs))
    /\ UNCHANGED <<configuration, callers>>

(***************************************************************************)
(* Concurrent callers of get_redaction_shield() with no patterns.  Each    *)
(* caller t is at one place of the function (pc): before the call (idle),  *)
(* at the test of line 180 (check), in the constructor (construct), at the *)
(* assignment to the global (store), at the return statement (return),     *)
(* returned (done) or left by an exception (raised).  new is the instance  *)
(* it constructed, ret the one it returned, exc the exception that left    *)
(* it; quiet and seen record, for a call, whether no other call was in     *)
(* progress when it started and the shared reference at that moment.       *)
(***************************************************************************)
IdleCaller ==
    [pc |-> "idle", new |-> NoShield, ret |-> NoShield, exc |-> "",
     quiet |-> FALSE, seen |-> NoShield]

NoCallers == [t \in 1..MaxCallers |-> IdleCaller]

InProgress(c) == c.pc \in {"check", "construct", "store", "return"}

\* get_redaction_shield() is called
StartCall(t) ==
    /\ callers[t].pc = "idle"
    /\ callers' = [callers EXCEPT ![t].pc = "check",
                                  ![t].quiet = \A u \in DOMAIN callers : ~InProgress(callers[u]),
                                  ![t].seen = SHIELD_INSTANCE]
    /\ UNCHANGED <<configuration, SHIELD_INSTANCE, call, heap>>

\* if SHIELD_INSTANCE is None or patterns is not None
CheckShared(t) ==
    /\ callers[t].pc = "check"
    /\ callers' = [callers EXCEPT ![t].pc = IF NeedsConstruct(SHIELD_INSTANCE, None)
                                            THEN "construct" ELSE "return"]
    /\ UNCHANGED <<configuration, SHIELD_INSTANCE, call, heap>>

\* RedactionShield(patterns), new being the constructor's outcome
ConstructedBy(t, new) ==
    IF new.exc # ""
    THEN [callers EXCEPT ![t].pc = "raised", ![t].exc = new.exc]
    ELSE [callers EXCEPT ![t].pc = "store", ![t].new = Instance(t, new)]

ConstructNew(t) ==
    /\ callers[t].pc = "construct"
    /\ callers' = ConstructedBy(t, RedactionShield(None, configuration))
    /\ UNCHANGED <<configuration, SHIELD_INSTANCE, call, heap>>

\* SHIELD_INSTANCE = <the new instance>
StoreShared(t) ==
    /\ callers[t].pc = "store"
    /\ SHIELD_INSTANCE' = callers[t].new
    /\ callers' = [callers EXCEPT ![t].pc = "return"]
    /\ UNCHANGED <<configuration, call, heap>>

\* return SHIELD_INSTANCE
ReturnShared(t) ==
    /\ callers[t].pc = "return"
    /\ callers' = [callers EXCEPT ![t].pc = "done", ![t].ret = SHIELD_INSTANCE]
    /\ UNCHANGED <<configuration, SHIELD_INSTANCE, call, heap>>

(***************************************************************************)
(* Spec: histories of calls to the module's functions and to run, from the *)
(* state the module is imported in.                                        *)
(***************************************************************************)
Init ==
    /\ configuration \in SharedConfigs
    /\ SHIELD_INSTANCE = NoShield
    /\ call = NoCall
    /\ heap = <<>>
    /\ callers = NoCallers

Next ==
    \/ \E patterns \in {None} \cup SharedPatternLists : GetRedactionShield(patterns)
    \/ \E query \in Queries : RedactQuery(query)
    \/ \E objs \in SeqsUpTo(AttachmentObjects, MaxList) : RedactAttachments(objs)
    \/ \E objs \in SeqsUpTo(MessageObjects, MaxList) : Run(objs)

Spec == Init /\ [][Next]_vars

(***************************************************************************)
(* SpecCtor: the constructor, over configurations and explicit lists.      *)
(***************************************************************************)
InitCtor ==
    /\ configuration \in Configs
    /\ SHIELD_INSTANCE = NoShield
    /\ call = NoCall
    /\ heap = <<>>
    /\ callers = NoCallers

NextCtor == \E patterns \in {None} \cup PatternLists(RuleEntries) : Construct(patterns)

SpecCtor == InitCtor /\ [][NextCtor]_vars

(***************************************************************************)
(* SpecText: redact_text of an instance, over rule lists and texts.        *)
(***************************************************************************)
InitText ==
    /\ configuration = NoConfig
    /\ \E patterns \in {None} \cup PatternLists(TextEntries) :
          SHIELD_INSTANCE = Instance(1, RedactionShield(patterns, NoConfig))
    /\ call = NoCall
    /\ heap = <<>>
    /\ callers = NoCallers

NextText == \E text \in {None} \cup {Some(t) : t \in Texts} : RedactText(text)

SpecText == InitText /\ [][NextText]_vars

(***************************************************************************)
(* SpecRace: callers of get_redaction_shield() interleaved statement by    *)
(* statement, from the state the module is imported in.                    *)
(***************************************************************************)
NextRace ==
    \E t \in 1..MaxCallers :
        \/ StartCall(t)
        \/ CheckShared(t)
        \/ ConstructNew(t)
        \/ StoreShared(t)
        \/ ReturnShared(t)

SpecRace == Init /\ [][NextRace]_vars

(***************************************************************************)
(* Reference definitions the properties are stated with.                   *)
(***************************************************************************)
\* The substitution of one rule, a rule whose replacement is no valid
\* template leaving the text as it is
ApplyRule(rule, text) ==
    IF TemplateError(rule.replacement) THEN text
    ELSE SubFrom(rule.pattern, rule.replacement, text, 1)

\* The left-to-right fold of the rules over the text
RECURSIVE FoldRules(_, _)
FoldRules(rules, text) ==
    IF rules = <<>> THEN text
    ELSE FoldRules(Tail(rules), ApplyRule(Head(rules), text))

\* The content a redacted record holds for a given content
FoldContent(shield, content) ==
    IF content.isNone \/ content.val = <<>> THEN content
    ELSE Some(FoldRules(shield.compiled_patterns, content.val))

LowerSeq(w) == [i \in DOMAIN w |-> Lower(w[i])]

\* The maximal runs of word characters and of other characters, in order
RunEnd(text, pos) ==
    IF \E e \in (pos + 1)..Len(text) : IsWordChar(text[e]) # IsWordChar(text[pos])
    THEN CHOOSE e \in (pos + 1)..Len(text) :
            /\ IsWordChar(text[e]) # IsWordChar(text[pos])
            /\ \A k \in (pos + 1)..(e - 1) : IsWordChar(text[k]) = IsWordChar(text[pos])
    ELSE Len(text) + 1

RECURSIVE RunsFrom(_, _)
RunsFrom(text, pos) ==
    IF pos > Len(text) THEN <<>>
    ELSE <<SubSeq(text, pos, RunEnd(text, pos) - 1)>> \o RunsFrom(text, RunEnd(text, pos))

Runs(text) == RunsFrom(text, 1)

Api == <<"a","p","i">>
Key == <<"k","e","y">>

\* The default keywords as whole words, and what each is replaced by
RedactedWords ==
    { <<"p","a","s","s","w","o","r","d">>, <<"s","e","c","r","e","t">>,
      <<"t","o","k","e","n">>, Api \o Key, Api \o <<"_">> \o Key }

WordReplacement(w) ==
    CASE LowerSeq(w) = Foo -> <<"d","e","p","l","o","y","m","e","n","t">>
      [] LowerSeq(w) = <<"b","a","r">> -> <<"o","p","e","n","s","h","i","f","t">>
      [] LowerSeq(w) \in RedactedWords -> Redacted
      [] OTHER -> w

\* api-key: the words api and key joined by one hyphen
HyphenKeyAt(runs, i) ==
    /\ i + 2 <= Len(runs)
    /\ LowerSeq(runs[i]) = Api
    /\ runs[i + 1] = <<"-">>
    /\ LowerSeq(runs[i + 2]) = Key

\* Every whole-word keyword replaced, everything else kept
RECURSIVE ReplaceWordsFrom(_, _)
ReplaceWordsFrom(runs, i) ==
    IF i > Len(runs) THEN <<>>
    ELSE IF HyphenKeyAt(runs, i) THEN Redacted \o ReplaceWordsFrom(runs, i + 3)
    ELSE WordReplacement(runs[i]) \o ReplaceWordsFrom(runs, i + 1)

ReplaceWords(text) == ReplaceWordsFrom(Runs(text), 1)

NoKeywordLeft(text) ==
    \A i \in DOMAIN Runs(text) :
        /\ WordReplacement(Runs(text)[i]) = Runs(text)[i]
        /\ ~HyphenKeyAt(Runs(text), i)

\* An entry _compile_patterns can compile: a dict with both keys whose
\* pattern is a str with every "[" closed
WellFormed(src) == \A i \in DOMAIN src : src[i] = "[" => \E j \in (i + 1)..Len(src) : src[j] = "]"

ValidEntry(e) ==
    /\ e.type = "dict"
    /\ e.keys = BothKeys
    /\ e.pattern.kind = "str"
    /\ WellFormed(e.pattern.s)

Originals(compiled) == [i \in DOMAIN compiled |-> compiled[i].original]
Replacements(compiled) == [i \in DOMAIN compiled |-> compiled[i].replacement]
PatternsOf(entries) == [i \in DOMAIN entries |-> entries[i].pattern]
ReplacementsOf(entries) == [i \in DOMAIN entries |-> entries[i].replacement]

\* A configured field the rule list can be taken from: a non-empty list
\* of dicts, or of models that all dump to a dict
Normalisable(e) == e.type = "dict" \/ (e.type = "model" /\ e.dump = "ok")
Normalised(items) ==
    [i \in DOMAIN items |->
        Entry("dict", items[i].keys, items[i].pattern, items[i].replacement, "none")]
NonEmptyList(field) == field.present /\ field.isList /\ field.items # <<>>
Usable(field) ==
    /\ NonEmptyList(field)
    /\ \/ field.items[1].type = "dict"
       \/ \A i \in DOMAIN field.items : Normalisable(field.items[i])
FieldItems(field) ==
    IF field.items[1].type = "dict" THEN field.items ELSE Normalised(field.items)

(***************************************************************************)
(* C1: for every non-empty text and every compiled rule list, redact_text  *)
(* returns the left-to-right fold of the rules over the text (rule i       *)
(* applied to the output of rule i-1, in list order).                      *)
(* Violated: a rule whose replacement is no valid template makes           *)
(* pattern.sub raise re.error, which except ValueError does not catch.     *)
(***************************************************************************)
C1_ReturnsFold ==
    (call.op = "redact_text" /\ Truthy(call.text)) =>
        /\ call.exc = ""
        /\ call.ret = Some(FoldRules(SHIELD_INSTANCE.compiled_patterns, call.text.val))

\* What does hold: a redact_text call that returns, returns the fold.
C1_FoldWhenReturned ==
    (call.op = "redact_text" /\ Truthy(call.text) /\ call.exc = "") =>
        call.ret = Some(FoldRules(SHIELD_INSTANCE.compiled_patterns, call.text.val))

C4_StoresExactlyP ==
    (call.op = "get_redaction_shield" /\ ~call.patterns.isNone /\ call.exc = "") =>
        /\ call.constructed
        /\ ~call.consulted
        /\ call.shield = SHIELD_INSTANCE
        /\ call.shield.patterns = call.patterns.val

(***************************************************************************)
(* C5: get_redaction_shield() with no patterns constructs only when the    *)
(* shared reference is unset and otherwise returns the shared instance     *)
(* without replacing it, so two consecutive such calls return the same     *)
(* instance; the shared reference, once set, is never unset and is         *)
(* replaced only by get_redaction_shield with patterns.                    *)
(***************************************************************************)
NoArgGet(c) == c.op = "get_redaction_shield" /\ c.patterns.isNone

C5_Step ==
    /\ ~SHIELD_INSTANCE.isNone => ~SHIELD_INSTANCE'.isNone
    /\ (~SHIELD_INSTANCE.isNone /\ SHIELD_INSTANCE' # SHIELD_INSTANCE) =>
          (call'.op = "get_redaction_shield" /\ ~call'.patterns.isNone)
    /\ NoArgGet(call') =>
          /\ call'.constructed = SHIELD_INSTANCE.isNone
          /\ ~SHIELD_INSTANCE.isNone =>
                /\ call'.exc = ""
                /\ call'.shield = SHIELD_INSTANCE
                /\ SHIELD_INSTANCE' = SHIELD_INSTANCE
    /\ (NoArgGet(call) /\ call.exc = "" /\ NoArgGet(call')) =>
          (call'.exc = "" /\ call'.shield = call.shield)

C5_Singleton == [][C5_Step]_vars

\* A no-argument call that found the shared instance set and returned it
C5_Witness ==
    /\ NoArgGet(call)
    /\ ~call.constructed
    /\ call.exc = ""
    /\ ~SHIELD_INSTANCE.isNone
    /\ call.shield = SHIELD_INSTANCE

(***************************************************************************)
(* C6: for every explicit rule list, whatever its entries (an invalid      *)
(* regular expression, a missing pattern or replacement key, or an entry   *)
(* malformed in another way), the constructor does not raise,              *)
(* compiled_patterns holds exactly the valid entries in their order, and   *)
(* one error is logged for each other entry.                               *)
(* Violated: an entry that is no dict, or whose pattern is no str, raises  *)
(* TypeError, which except (re.error, KeyError) does not catch.            *)
(***************************************************************************)
C6_NeverRaises ==
    (call.op = "RedactionShield" /\ Truthy(call.patterns)) =>
        /\ call.exc = ""
        /\ Originals(call.shield.compiled_patterns) =
              PatternsOf(SelectSeq(call.patterns.val, ValidEntry))
        /\ Replacements(call.shield.compiled_patterns) =
              ReplacementsOf(SelectSeq(call.patterns.val, ValidEntry))
        /\ call.errors =
              Len(call.patterns.val) - Len(SelectSeq(call.patterns.val, ValidEntry))

\* What does hold: a construction that completes has compiled exactly the
\* valid entries, in order, and logged one error for each other entry.
C6_ValidEntriesWhenReturned ==
    (call.op = "RedactionShield" /\ Truthy(call.patterns) /\ call.exc = "") =>
        /\ Originals(call.shield.compiled_patterns) =
              PatternsOf(SelectSeq(call.patterns.val, ValidEntry))
        /\ call.errors =
              Len(call.patterns.val) - Len(SelectSeq(call.patterns.val, ValidEntry))

(***************************************************************************)
(* C7: when no error occurs, redact_attachments returns a new list of the  *)
(* same length whose element i is a new record of the same type as input   *)
(* i, with input i's attachment_type and content_type and the redaction    *)
(* of input i's content; no returned record is an input record and the     *)
(* input records are unchanged.                                            *)
(***************************************************************************)
C7_NewRecords ==
    (call.op = "redact_attachments" /\ call.exc = "" /\ call.caught = "") =>
        /\ ~call.same
        /\ Len(call.list) = Len(call.objs)
        /\ \A i \in DOMAIN call.objs :
              /\ heap[i] = call.objs[i]
              /\ call.list[i] \in DOMAIN heap
              /\ call.list[i] \notin DOMAIN call.objs
              /\ \A j \in DOMAIN call.objs : j # i => call.list[j] # call.list[i]
              /\ heap[call.list[i]].ctor = call.objs[i].ctor
              /\ heap[call.list[i]].attachment_type = call.objs[i].attachment_type
              /\ heap[call.list[i]].content_type = call.objs[i].content_type
              /\ heap[call.list[i]].content =
                    FoldContent(SHIELD_INSTANCE, call.objs[i].content)

\* Two attachments, one with a keyword and one without content, redacted
\* into two new records
C7_Witness ==
    /\ call.op = "redact_attachments"
    /\ call.exc = ""
    /\ call.caught = ""
    /\ call.objs = << Attachment("log", "text/plain", Some(Foo), ""),
                      Attachment("conf", "text/html", None, "") >>
    /\ Len(call.list) = 2
    /\ heap[call.list[1]].content # call.objs[1].content
    /\ heap[call.list[2]].content = None
    /\ heap[1].content = Some(Foo)

(***************************************************************************)
(* C8: redact_attachments never raises; when anything raises while it      *)
(* obtains the shared instance, redacts a content or builds a record, it   *)
(* logs one error and returns the list it was given, with the records it   *)
(* was given unmodified.                                                   *)
(***************************************************************************)
C8_FailsOpen ==
    call.op = "redact_attachments" =>
        /\ call.exc = ""
        /\ call.caught # "" =>
              /\ call.same
              /\ call.list = Ids(call.objs)
              /\ \A i \in DOMAIN call.objs : heap[i] = call.objs[i]
              /\ call.errors =
                    1 + (IF call.constructed
                         THEN RedactionShield(None, configuration).errors ELSE 0)

\* The second record fails to build after the first was redacted
C8_Witness ==
    /\ call.op = "redact_attachments"
    /\ call.exc = ""
    /\ call.caught = "TypeError"
    /\ Len(call.objs) = 2
    /\ call.objs[1].ctor = ""
    /\ call.objs[1].content = Some(Foo)
    /\ call.same
    /\ call.list = <<1, 2>>

(***************************************************************************)
(* C9: run does not mutate the message objects it is given, whether a      *)
(* message offers model_copy, copy or no copy facility.                    *)
(* Violated: _copy_message returns a message with neither facility itself, *)
(* and run assigns the redacted content to it.                             *)
(***************************************************************************)
C9_OriginalsUnchanged ==
    call.op = "run" => \A i \in DOMAIN call.objs : heap[i] = call.objs[i]

(***************************************************************************)
(* C10: run never raises; on an error of any kind it logs one error and    *)
(* returns the list it was given.                                          *)
(* Violated: run catches ValueError only; a TypeError out of a copy or a   *)
(* re.error out of redact_text leaves run.                                 *)
(***************************************************************************)
C10_FailsOpen ==
    call.op = "run" =>
        /\ call.exc = ""
        /\ call.caught # "" =>
              /\ call.same
              /\ call.list = Ids(call.objs)
              /\ \A i \in DOMAIN call.objs : heap[i] = call.objs[i]
              /\ call.errors = 1

(***************************************************************************)
(* C11: an error raised while redact_text applies one rule (a replacement  *)
(* that is no valid substitution template) is caught and logged for that   *)
(* rule only: the working text stays as it was before the rule, every      *)
(* following rule is still applied and redact_text returns normally.       *)
(* Violated: pattern.sub raises re.error, which is no ValueError, so the   *)
(* except clause of the loop does not catch it and redact_text raises.     *)
(***************************************************************************)
\* The rule raises on the text: it matches and its replacement is rejected
RuleRaises(rule, text) ==
    /\ TemplateError(rule.replacement)
    /\ \E pos \in 1..Len(text) : MatchFrom(rule.pattern, 1, text, pos) > pos

\* The number of rules that raise along the fold
RECURSIVE RuleErrors(_, _)
RuleErrors(rules, text) ==
    IF rules = <<>> THEN 0
    ELSE (IF RuleRaises(Head(rules), text) THEN 1 ELSE 0)
         + RuleErrors(Tail(rules), ApplyRule(Head(rules), text))

C11_PerRuleErrorsCaught ==
    (/\ call.op = "redact_text"
     /\ Truthy(call.text)
     /\ RuleErrors(SHIELD_INSTANCE.compiled_patterns, call.text.val) > 0) =>
        /\ call.exc = ""
        /\ call.ret = Some(FoldRules(SHIELD_INSTANCE.compiled_patterns, call.text.val))
        /\ call.errors = RuleErrors(SHIELD_INSTANCE.compiled_patterns, call.text.val)

\* What does hold: redact_text raises exactly when a rule raises.
C11_RaisesWhenRuleRaises ==
    (call.op = "redact_text" /\ Truthy(call.text)) =>
        (call.exc = "re.error") =
            (RuleErrors(SHIELD_INSTANCE.compiled_patterns, call.text.val) > 0)

(***************************************************************************)
(* C12: any error raised while the configuration's pattern fields are read *)
(* or normalised (a field read that fails, an entry that is neither a dict *)
(* nor an object with model_dump, a model_dump that raises) is caught, and *)
(* constructing a RedactionShield with no explicit list then succeeds with *)
(* the built-in defaults; no configuration error leaves the constructor.   *)
(* Violated: only ValueError is caught, in _extract_patterns, in           *)
(* load_redaction_patterns_from_config and in __init__; an AttributeError  *)
(* from an entry without model_dump, or any other exception, propagates.   *)
(***************************************************************************)
\* Reading or normalising the field raises
FieldFails(field) ==
    \/ field.raises # ""
    \/ /\ NonEmptyList(field)
       /\ field.items[1].type # "dict"
       /\ \E i \in DOMAIN field.items : ~Normalisable(field.items[i])

\* The lookup meets a failing field: the root one, or the nested one after
\* a root one that yields nothing
ConfigFails(config) ==
    \/ FieldFails(config.root)
    \/ /\ ~NonEmptyList(config.root)
       /\ config.shields
       /\ FieldFails(config.nested)

C12_ConfigErrorsCaught ==
    (/\ call.op = "RedactionShield"
     /\ call.patterns.isNone
     /\ ConfigFails(configuration)) =>
        /\ call.exc = ""
        /\ call.shield.patterns = _get_default_patterns

\* What does hold: the only exception caught is ValueError, and a failing
\* ValueError read ends with the defaults.
C12_ValueErrorReadCaught ==
    (/\ call.op = "RedactionShield"
     /\ call.patterns.isNone
     /\ configuration.root.raises = "ValueError") =>
        /\ call.exc = ""
        /\ call.shield.patterns = _get_default_patterns
        /\ call.errors = 1

(***************************************************************************)
(* C13: when several callers run get_redaction_shield() with no patterns   *)
(* concurrently from an unset shared reference, interleaved in any order,  *)
(* every caller returns an instance, all instances constructed have the    *)
(* same rule set, the shared reference ends as one of the instances        *)
(* constructed, and every call that starts after the racing calls have     *)
(* finished returns that instance.                                         *)
(* Violated: the constructor raises on a configuration whose entries have  *)
(* no model_dump (C12), so the racing callers and every later one raise.   *)
(***************************************************************************)
Built(c) == ~c.new.isNone

RaceOutcome ==
    /\ \A t \in DOMAIN callers : callers[t].pc = "done" => ~callers[t].ret.isNone
    /\ \A t, u \in DOMAIN callers :
          (Built(callers[t]) /\ Built(callers[u])) =>
              /\ callers[t].new.patterns = callers[u].new.patterns
              /\ callers[t].new.compiled_patterns = callers[u].new.compiled_patterns
    /\ ((\A t \in DOMAIN callers : ~InProgress(callers[t]))
          /\ (\E t \in DOMAIN callers : callers[t].pc # "idle")) =>
              \E t \in DOMAIN callers : Built(callers[t]) /\ SHIELD_INSTANCE = callers[t].new
    /\ \A t \in DOMAIN callers :
          (callers[t].pc = "done" /\ callers[t].quiet /\ ~callers[t].seen.isNone) =>
              /\ callers[t].ret = callers[t].seen
              /\ ~Built(callers[t])
              /\ SHIELD_INSTANCE = callers[t].seen

C13_EveryCallerReturns ==
    /\ \A t \in DOMAIN callers : callers[t].pc # "raised"
    /\ RaceOutcome

\* What does hold: on a configuration the constructor accepts, the race
\* ends as claimed in every interleaving.
C13_WhenConstructorReturns ==
    RedactionShield(None, configuration).exc = "" =>
        /\ \A t \in DOMAIN callers : callers[t].pc # "raised"
        /\ RaceOutcome

(***************************************************************************)
(* C14: after any sequential history of calls, redact_query(cid, q)        *)
(* returns redact_text(q, cid) of the current shared instance, whose rule  *)
(* set is the one passed to the most recent get_redaction_shield call with *)
(* patterns, or the configured or default one if there was none; and       *)
(* redact_query never changes the rule set of an existing shared instance. *)
(* Violated: after get_redaction_shield([]) the shared instance holds the  *)
(* six defaults, not the empty rule set that was passed (C4).              *)
(***************************************************************************)
\* redact_query hands the query to the shared instance it finds or creates
QueryDelegates ==
    (call'.op = "redact_query" /\ ~SHIELD_INSTANCE'.isNone) =>
        /\ call'.exc = redact_text(SHIELD_INSTANCE', call'.text).exc
        /\ call'.exc = "" => call'.ret = redact_text(SHIELD_INSTANCE', call'.text).val
        /\ ~SHIELD_INSTANCE.isNone => SHIELD_INSTANCE' = SHIELD_INSTANCE
        /\ SHIELD_INSTANCE.isNone =>
              /\ call'.constructed
              /\ SHIELD_INSTANCE'.patterns = RedactionShield(None, configuration).patterns

\* Only get_redaction_shield with patterns changes the rule set
RuleSetKept ==
    (~SHIELD_INSTANCE.isNone /\ ~(call'.op = "get_redaction_shield" /\ ~call'.patterns.isNone)) =>
        /\ ~SHIELD_INSTANCE'.isNone
        /\ SHIELD_INSTANCE'.patterns = SHIELD_INSTANCE.patterns

\* get_redaction_shield with patterns leaves an instance with those patterns
RuleSetPassed ==
    (call'.op = "get_redaction_shield" /\ ~call'.patterns.isNone /\ call'.exc = "") =>
        /\ ~SHIELD_INSTANCE'.isNone
        /\ SHIELD_INSTANCE'.patterns = call'.patterns.val

C14_QueryUsesMostRecentRules == [][QueryDelegates /\ RuleSetKept /\ RuleSetPassed]_vars

\* What does hold: the delegation, and that no other call changes the rules.
C14_QueryDelegatesToShared == [][QueryDelegates /\ RuleSetKept]_vars

====
